---- MODULE Spec2Model ----
(***************************************************************************)
(* A model of the transformation engine of etl_utilities:                  *)
(* etl_lib/transformers.py (map_columns, filter_rows, add_new_columns,     *)
(* convert_data_types, transform_data) and the transformation step of      *)
(* convert.py's main.                                                      *)
(*                                                                         *)
(* A DataFrame is a record                                                 *)
(*   [columns, dtypes, index, rows]                                        *)
(* columns: the column labels in order (pandas allows repeated labels),    *)
(* dtypes: the dtype of each column, index: the row labels, rows: the      *)
(* cells, row by row.  A cell is [k, i, s]: k is its kind ("int", "str",   *)
(* "bool", "nan" for NaN, "none" for None, "NA" for pd.NA), i its number   *)
(* and s its text, a sequence of one-character strings.  A number in a     *)
(* float64 column is the float of that value (1 stands for 1.0).           *)
(***************************************************************************)
EXTENDS Integers, Sequences, FiniteSets, TLC

VARIABLES
    data_df,            \* main: the dataset the reader returned
    transform_options,  \* main: the template's "transformations" section
    current_df,         \* transform_data: the working dataset
    filtered_df,        \* filter_rows: its working copy
    transformed_df,     \* main: the dataset handed to the writer
    log,                \* the "Step k" messages and the warnings logged
    idx,                \* the entries the running loop has handled
    pc                  \* where main is

vars == <<data_df, transform_options, current_df, filtered_df, transformed_df,
          log, idx, pc>>

\* ------------------------------------------------------------------ bounds

\* The most rows a dataset read by the reader holds.
MaxRows == 3
\* The most entries one configuration list holds.
MaxEntries == 2

\* ------------------------------------------------------------------- cells

IntCell(n) == [k |-> "int", i |-> n, s |-> <<>>]
StrCell(t) == [k |-> "str", i |-> 0, s |-> t]
BoolCell(b) == [k |-> "bool", i |-> IF b THEN 1 ELSE 0, s |-> <<>>]
NaN == [k |-> "nan", i |-> 0, s |-> <<>>]
NoneCell == [k |-> "none", i |-> 0, s |-> <<>>]
NA == [k |-> "NA", i |-> 0, s |-> <<>>]
\* A float that is no whole number: whole part i, digits s of the fraction.
FloatCell(n, frac) == [k |-> "float", i |-> n, s |-> frac]

\* pandas' isna on one cell.
IsNull(c) == c.k \in {"nan", "none", "NA"}

Range(f) == {f[j] : j \in DOMAIN f}

Digits == <<"0", "1", "2", "3", "4", "5", "6", "7", "8", "9">>

RECURSIVE NatToStr(_)
NatToStr(n) ==
    IF n < 10 THEN <<Digits[n + 1]>>
    ELSE NatToStr(n \div 10) \o <<Digits[(n % 10) + 1]>>

\* Python's str() of an int.
IntToStr(n) == IF n < 0 THEN <<"-">> \o NatToStr(-n) ELSE NatToStr(n)

\* Python's str() of a float holding an integral value: 1.0 -> "1.0".
FloatToStr(n) == IntToStr(n) \o <<".", "0">>

\* str() of one cell of a column of dtype dt (what astype(str) makes of it).
CellToStr(c, dt) ==
    CASE c.k = "str" -> c.s
      [] c.k = "int" -> IF dt = "float64" THEN FloatToStr(c.i) ELSE IntToStr(c.i)
      [] c.k = "float" -> IntToStr(c.i) \o <<".">> \o c.s
      [] c.k = "bool" -> IF c.i = 1 THEN <<"T", "r", "u", "e">>
                                    ELSE <<"F", "a", "l", "s", "e">>
      [] c.k = "nan" -> <<"n", "a", "n">>
      [] c.k = "none" -> <<"N", "o", "n", "e">>
      [] c.k = "NA" -> <<"<", "N", "A", ">">>

\* --------------------------------------------------------------- DataFrame

NCols(df) == Len(df.columns)
NRows(df) == Len(df.rows)

\* name in df.columns
HasColumn(df, name) == \E j \in 1..NCols(df) : df.columns[j] = name

\* The position of the column labelled name (the first, should labels repeat).
ColPos(df, name) ==
    CHOOSE j \in 1..NCols(df) :
        /\ df.columns[j] = name
        /\ \A h \in 1..(j - 1) : df.columns[h] # name

\* df[name] as the sequence of its cells.
Column(df, name) == [r \in 1..NRows(df) |-> df.rows[r][ColPos(df, name)]]

DTypeOf(df, name) == df.dtypes[ColPos(df, name)]

\* df.empty
IsEmpty(df) == NRows(df) = 0 \/ NCols(df) = 0

\* df[name] = cells with dtype dt: an existing label keeps its place and gets
\* the new cells and dtype, a new label is appended as the last column.
SetColumn(df, name, dt, cells) ==
    IF HasColumn(df, name)
    THEN LET p == ColPos(df, name) IN
         [df EXCEPT !.dtypes = [df.dtypes EXCEPT ![p] = dt],
                    !.rows = [r \in 1..NRows(df) |->
                                 [df.rows[r] EXCEPT ![p] = cells[r]]]]
    ELSE [df EXCEPT !.columns = Append(df.columns, name),
                    !.dtypes = Append(df.dtypes, dt),
                    !.rows = [r \in 1..NRows(df) |-> Append(df.rows[r], cells[r])]]

\* The rows of df for which keep[r] holds, labels and order kept: df[mask].
SelectRows(df, keep) ==
    LET F[r \in 0..NRows(df)] ==
            IF r = 0 THEN <<>>
            ELSE IF keep[r] THEN Append(F[r - 1], r) ELSE F[r - 1]
        sel == F[NRows(df)]
    IN [df EXCEPT !.index = [j \in 1..Len(sel) |-> df.index[sel[j]]],
                  !.rows = [j \in 1..Len(sel) |-> df.rows[sel[j]]]]

\* What a stage function hands back: the dataset it returns, or an exception
\* that leaves it.
Returned(df) == [raised |-> FALSE, df |-> df]
Raised(df) == [raised |-> TRUE, df |-> df]

\* ------------------------------------------------------------- map_columns

\* A mapping entry is [from, to]; Missing marks a key the entry does not have.
Missing == "<missing>"

ValidMapping(m) == m.from # Missing /\ m.to # Missing

\* rename_map after the loop over the first k entries (lines 22-35): a later
\* entry for the same 'from' overwrites an earlier one; an entry whose names
\* are equal adds nothing.
RECURSIVE RenameMap(_, _, _)
RenameMap(df, column_mappings, k) ==
    IF k = 0 THEN [nm \in {} |-> nm]
    ELSE LET prev == RenameMap(df, column_mappings, k - 1)
             m == column_mappings[k]
         IN IF ValidMapping(m) /\ HasColumn(df, m.from) /\ m.from # m.to
            THEN [nm \in (DOMAIN prev) \cup {m.from} |->
                     IF nm = m.from THEN m.to ELSE prev[nm]]
            ELSE prev

\* columns_to_select_original (line 38): the 'from' of every entry that names
\* an existing column, repeated as often as it is listed.
RECURSIVE ColumnsToSelect(_, _)
ColumnsToSelect(df, column_mappings) ==
    IF column_mappings = <<>> THEN <<>>
    ELSE LET m == Head(column_mappings)
             rest == ColumnsToSelect(df, Tail(column_mappings))
         IN IF HasColumn(df, m.from) THEN <<m.from>> \o rest ELSE rest

\* df[columns_to_select].dropna(): the selection without the rows that hold
\* a null.
SelectColumnsDropNull(df, names) ==
    LET pos == [j \in 1..Len(names) |-> ColPos(df, names[j])]
        keep == {r \in 1..NRows(df) :
                    \A j \in 1..Len(names) : ~IsNull(df.rows[r][pos[j]])}
        order == [q \in 1..Cardinality(keep) |->
                     CHOOSE r \in keep : Cardinality({x \in keep : x < r}) = q - 1]
    IN [columns |-> names,
        dtypes |-> [j \in 1..Len(names) |-> df.dtypes[pos[j]]],
        index |-> [q \in 1..Len(order) |-> df.index[order[q]]],
        rows |-> [q \in 1..Len(order) |->
                     [j \in 1..Len(names) |-> df.rows[order[q]][pos[j]]]]]

\* df[names].copy(): the named columns in the order listed.
SelectColumns(df, names) ==
    LET pos == [j \in 1..Len(names) |-> ColPos(df, names[j])] IN
    [columns |-> names,
     dtypes |-> [j \in 1..Len(names) |-> df.dtypes[pos[j]]],
     index |-> df.index,
     rows |-> [r \in 1..NRows(df) |->
                  [j \in 1..Len(names) |-> df.rows[r][pos[j]]]]]

\* df.rename(columns=rename_map): every label that is a key is replaced.
RenameColumns(df, rename_map) ==
    [df EXCEPT !.columns =
        [j \in 1..NCols(df) |->
            IF df.columns[j] \in DOMAIN rename_map
            THEN rename_map[df.columns[j]] ELSE df.columns[j]]]

\* map_columns without its two early returns.
map_columns_SelectOnly(df, column_mappings) ==
    IF \E j \in 1..Len(column_mappings) : column_mappings[j].from = Missing
    THEN Raised(df)
    ELSE Returned(RenameColumns(
             SelectColumns(df, ColumnsToSelect(df, column_mappings)),
             RenameMap(df, column_mappings, Len(column_mappings))))

map_columns(df, column_mappings) ==
    IF column_mappings = <<>> THEN Returned(df)
    \* line 38 reads m['from'] of every entry, the invalid ones too: KeyError
    ELSE IF \E j \in 1..Len(column_mappings) : column_mappings[j].from = Missing
    THEN Raised(df)
    ELSE LET sel == ColumnsToSelect(df, column_mappings) IN
         IF sel = <<>> THEN Returned(df)
         ELSE Returned(RenameColumns(SelectColumns(df, sel),
                           RenameMap(df, column_mappings, Len(column_mappings))))

\* ------------------------------------------------------------- filter_rows

\* None stands for a key for which dict.get returns None.
None == "<None>"

\* A filter's value: one scalar cell (NoneCell when the key is absent or null)
\* or a list of cells.
Scalar(c) == [t |-> "scalar", c |-> c, l |-> <<>>]
List(l) == [t |-> "list", c |-> NoneCell, l |-> l]

\* The characters of the model's strings, in code point order.
Alphabet ==
    <<"-", ".", "0", "1", "2", "3", "4", "5", "6", "7", "8", "9", "<", ">",
      "F", "N", "T", "a", "b", "e", "l", "n", "o", "r", "s", "u", "x">>

CharCode(ch) == CHOOSE j \in 1..Len(Alphabet) : Alphabet[j] = ch

\* Python's a < b on two strings.
RECURSIVE StrLess(_, _)
StrLess(a, b) ==
    IF b = <<>> THEN FALSE
    ELSE IF a = <<>> THEN TRUE
    ELSE IF Head(a) = Head(b) THEN StrLess(Tail(a), Tail(b))
    ELSE CharCode(Head(a)) < CharCode(Head(b))

\* Python's x == y on two non-null cells: numbers by value (1 == 1.0 == True),
\* strings by text, a number never equals a string.
PyEq(x, y) ==
    IF x.k = "str" \/ y.k = "str" THEN x.k = y.k /\ x.s = y.s
    ELSE x.i = y.i

\* Python's x < y on two non-null cells; "E" is the TypeError of comparing a
\* string with a number.
PyLess(x, y) ==
    IF x.k = "str" /\ y.k = "str" THEN (IF StrLess(x.s, y.s) THEN "T" ELSE "F")
    ELSE IF x.k = "str" \/ y.k = "str" THEN "E"
    ELSE IF x.i < y.i THEN "T" ELSE "F"

Bool3(b) == IF b THEN "T" ELSE "F"

\* x <cond> val for one non-null cell and one non-null scalar.
PyCompare(x, cond, val) ==
    CASE cond = "==" -> Bool3(PyEq(x, val))
      [] cond = "!=" -> Bool3(~PyEq(x, val))
      [] cond = "<" -> PyLess(x, val)
      [] cond = ">" -> PyLess(val, x)
      [] cond = "<=" -> IF PyEq(x, val) /\ PyLess(x, val) # "E" THEN "T"
                        ELSE PyLess(x, val)
      [] cond = ">=" -> IF PyEq(x, val) /\ PyLess(x, val) # "E" THEN "T"
                        ELSE PyLess(val, x)

Comparisons == {">", "<", ">=", "<=", "==", "!="}
StringConditions == {"contains", "startswith", "endswith"}

\* series <cond> val (pandas' comparison_op with a scalar): [err, mask].
\* A null scalar, and a null cell, compare unequal to everything; a numeric
\* column against a string is never equal and cannot be ordered; an object
\* column is compared cell by cell in Python.
CompareSeries(cells, dt, cond, val) ==
    LET n == Len(cells)
        all(b) == [err |-> FALSE, mask |-> [r \in 1..n |-> b]]
    IN IF IsNull(val) THEN all(cond = "!=")
       ELSE IF dt # "object" /\ val.k = "str"
       THEN IF cond \in {"==", "!="} THEN all(cond = "!=")
            ELSE [err |-> TRUE, mask |-> <<>>]
       ELSE LET one(x) == IF IsNull(x) THEN Bool3(cond = "!=")
                          ELSE PyCompare(x, cond, val)
            IN [err |-> \E r \in 1..n : one(cells[r]) = "E",
                mask |-> [r \in 1..n |-> one(cells[r]) = "T"]]

\* x in value for one cell and a list: Series.isin.
IsIn(x, l) == ~IsNull(x) /\ \E j \in 1..Len(l) : ~IsNull(l[j]) /\ PyEq(x, l[j])

\* Python's str(value) of a filter's scalar value.
PyStr(val) == CellToStr(val, "int64")

StartsWith(t, p) == Len(p) <= Len(t) /\ SubSeq(t, 1, Len(p)) = p
EndsWith(t, p) == Len(p) <= Len(t) /\ SubSeq(t, Len(t) - Len(p) + 1, Len(t)) = p

\* re.search(p, t) for a pattern of literal characters and ".", which
\* matches any character.
RegexSearch(t, p) ==
    \E st \in 0..(Len(t) - Len(p)) :
        \A j \in 1..Len(p) : p[j] = "." \/ p[j] = t[st + j]

\* series.str.<cond>(pat, na=False) for one cell: only a string can match.
StrPredicate(x, cond, pat) ==
    /\ x.k = "str"
    /\ CASE cond = "contains" -> RegexSearch(x.s, pat)
         [] cond = "startswith" -> StartsWith(x.s, pat)
         [] cond = "endswith" -> EndsWith(x.s, pat)

\* The scalar a comparison or a string predicate is given.
ScalarOf(value) == CASE value.t = "scalar" -> value.c

\* The frame a loop pass leaves and the warnings it logged: skipped is the
\* "Skipping" warning of lines 120, 139, 144, 164 and 166, coerced the
\* "Attempting conversion to string" warning of line 154.
Applied(df) == [df |-> df, skipped |-> FALSE, coerced |-> FALSE]
Skipped(df) == [df |-> df, skipped |-> TRUE, coerced |-> FALSE]

\* The series a string predicate runs on (lines 153-155): a column that is
\* not of object dtype is first converted with astype(str).
StringSeries(series, dt) ==
    IF dt # "object"
    THEN [r \in 1..Len(series) |-> StrCell(CellToStr(series[r], dt))]
    ELSE series

\* Lines 123-166 of the loop body: filter f on a frame that has its column.
ApplyCondition(frame, f) ==
    LET series == Column(frame, f.column)
        dt == DTypeOf(frame, f.column)
        n == NRows(frame)
    IN CASE f.condition \in Comparisons ->
                LET res == CompareSeries(series, dt, f.condition, ScalarOf(f.value)) IN
                IF res.err THEN Skipped(frame)
                ELSE Applied(SelectRows(frame, res.mask))
         [] f.condition = "isin" ->
                IF f.value.t # "list" THEN Skipped(frame)
                ELSE Applied(SelectRows(frame,
                         [r \in 1..n |-> IsIn(series[r], f.value.l)]))
         [] f.condition = "notin" ->
                IF f.value.t # "list" THEN Skipped(frame)
                ELSE Applied(SelectRows(frame,
                         [r \in 1..n |-> ~IsIn(series[r], f.value.l)]))
         [] f.condition = "isnull" ->
                Applied(SelectRows(frame, [r \in 1..n |-> IsNull(series[r])]))
         [] f.condition = "notnull" ->
                Applied(SelectRows(frame, [r \in 1..n |-> ~IsNull(series[r])]))
         [] f.condition \in StringConditions ->
                LET strs == StringSeries(series, dt)
                    pat == PyStr(ScalarOf(f.value))
                IN [df |-> SelectRows(frame,
                              [r \in 1..n |-> StrPredicate(strs[r], f.condition, pat)]),
                    skipped |-> FALSE,
                    coerced |-> dt # "object"]
         [] OTHER -> Skipped(frame)

\* The loop body with a filter on an unknown column matching no row.
ApplyFilterNoMatch(frame, f) ==
    IF ~HasColumn(frame, f.column)
    THEN Applied(SelectRows(frame, [r \in 1..NRows(frame) |-> FALSE]))
    ELSE ApplyCondition(frame, f)

\* One pass of the loop body (lines 113-166) for filter f on filtered_df = frame.
ApplyFilter(frame, f) ==
    IF ~HasColumn(frame, f.column) THEN Skipped(frame)
    ELSE ApplyCondition(frame, f)

\* --------------------------------------------------------- add_new_columns

\* A column definition is [name, operation, sources, separator, expression,
\* source_column, has_value, value]: name, operation and source_column are
\* None when the key is absent, has_value says whether the 'value' key is
\* there, and value is its cell (NoneCell for a null).  An expression is
\* [op, a, b]: "col" is the expression "a", "add" the expression "a + b"
\* over column names a and b, "none" an absent expression.
NoExpr == [op |-> "none", a |-> None, b |-> None]

\* separator.join(strs)
RECURSIVE Join(_, _)
Join(strs, separator) ==
    IF strs = <<>> THEN <<>>
    ELSE IF Len(strs) = 1 THEN strs[1]
    ELSE strs[1] \o separator \o Join(Tail(strs), separator)

\* df[sources].astype(str).agg(separator.join, axis=1) for row r.
ConcatRow(df, sources, separator, r) ==
    Join([j \in 1..Len(sources) |->
             CellToStr(Column(df, sources[j])[r], DTypeOf(df, sources[j]))],
         separator)

\* x + y for two cells of a row: a null on either side gives NaN, two
\* numbers their sum, two strings their concatenation; k = "error" is the
\* TypeError of adding a string and a number.
AddCells(x, y) ==
    IF IsNull(x) \/ IsNull(y) THEN NaN
    ELSE IF x.k = "str" /\ y.k = "str" THEN StrCell(x.s \o y.s)
    ELSE IF x.k = "str" \/ y.k = "str" THEN [k |-> "error", i |-> 0, s |-> <<>>]
    ELSE IntCell(x.i + y.i)

AddDType(da, db) ==
    IF da = "int64" /\ db = "int64" THEN "int64"
    ELSE IF da \in {"int64", "float64"} /\ db \in {"int64", "float64"} THEN "float64"
    ELSE "object"

\* df.eval(expression, engine='python'): [err, dtype, cells].  A name that is
\* no column and an addition that raises are errors.
Eval(df, expression) ==
    LET n == NRows(df)
        fail == [err |-> TRUE, dtype |-> "object", cells |-> <<>>]
    IN CASE expression.op = "col" ->
                IF ~HasColumn(df, expression.a) THEN fail
                ELSE [err |-> FALSE, dtype |-> DTypeOf(df, expression.a),
                      cells |-> Column(df, expression.a)]
         [] expression.op = "add" ->
                IF ~HasColumn(df, expression.a) \/ ~HasColumn(df, expression.b)
                THEN fail
                ELSE LET ca == Column(df, expression.a)
                         cb == Column(df, expression.b)
                         sum == [r \in 1..n |-> AddCells(ca[r], cb[r])]
                     IN IF \E r \in 1..n : sum[r].k = "error" THEN fail
                        ELSE [err |-> FALSE,
                              dtype |-> AddDType(DTypeOf(df, expression.a),
                                                 DTypeOf(df, expression.b)),
                              cells |-> sum]

\* The dtype pandas gives a column broadcast from one scalar.
ScalarDType(c) == IF c.k = "int" THEN "int64" ELSE "object"

\* 'value' in col_def (line 217).
HasValueNotNone(col_def) == col_def.has_value /\ col_def.value # NoneCell

HasValue(col_def) == col_def.has_value

\* Lines 188-222 of the loop body: the operation of col_def on df; skipped
\* is one of the warnings of lines 194, 201, 209, 214, 218, 222 and 224.
ApplyOperation(df, col_def) ==
    LET name == col_def.name
        operation == col_def.operation
        n == NRows(df)
    IN CASE operation = "concat" ->
               LET sources == col_def.sources IN
               IF \E j \in 1..Len(sources) : ~HasColumn(df, sources[j])
               THEN Skipped(df)
               \* on a frame without rows agg hands back a frame, and a
               \* frame of several columns cannot be set as one column
               ELSE IF n = 0 /\ Len(sources) > 1 THEN Skipped(df)
               ELSE Applied(SetColumn(df, name, "object",
                        [r \in 1..n |->
                            StrCell(ConcatRow(df, sources, col_def.separator, r))]))
         [] operation = "eval" ->
               IF col_def.expression.op = "none" THEN Skipped(df)
               ELSE LET res == Eval(df, col_def.expression) IN
                    IF res.err THEN Skipped(df)
                    ELSE Applied(SetColumn(df, name, res.dtype, res.cells))
         [] operation = "copy" ->
               IF col_def.source_column = None THEN Skipped(df)
               ELSE IF HasColumn(df, col_def.source_column)
               THEN Applied(SetColumn(df, name,
                        DTypeOf(df, col_def.source_column),
                        Column(df, col_def.source_column)))
               ELSE Skipped(df)
         [] operation = "default_value" ->
               IF ~HasValue(col_def) THEN Skipped(df)
               ELSE Applied(SetColumn(df, name, ScalarDType(col_def.value),
                        [r \in 1..n |-> col_def.value]))
         [] OTHER -> Skipped(df)

\* The loop body without the check of the name at line 183.
ApplyColDefUnnamed(df, col_def) ==
    IF col_def.operation = None THEN Skipped(df)
    ELSE ApplyOperation(df, col_def)

\* One pass of the loop body (lines 181-224) for col_def on df.
ApplyColDef(df, col_def) ==
    IF col_def.name = None \/ col_def.operation = None THEN Skipped(df)
    ELSE ApplyOperation(df, col_def)

\* ------------------------------------------------------ convert_data_types

IsDigit(ch) == \E d \in 1..10 : Digits[d] = ch
DigitVal(ch) == (CHOOSE d \in 1..10 : Digits[d] = ch) - 1
AllDigits(t) == \A j \in 1..Len(t) : IsDigit(t[j])

RECURSIVE StrToNat(_)
StrToNat(t) ==
    IF t = <<>> THEN 0
    ELSE StrToNat(SubSeq(t, 1, Len(t) - 1)) * 10 + DigitVal(t[Len(t)])

\* The digits of a fraction without the zeros at its end.
RECURSIVE StripZeros(_)
StripZeros(t) ==
    IF t # <<>> /\ t[Len(t)] = "0" THEN StripZeros(SubSeq(t, 1, Len(t) - 1))
    ELSE t

\* What pd.to_numeric makes of a text: [kind, i, f] with kind "int" for a
\* text that reads as an integral number (digits, with an optional sign and
\* an optional fraction of zeros), "frac" for a number with a fraction f,
\* "nan" for everything else (errors='coerce').
ParseNum(t) ==
    LET neg == t # <<>> /\ t[1] = "-"
        body == IF neg THEN Tail(t) ELSE t
        dots == {p \in 1..Len(body) : body[p] = "."}
        sign(v) == IF neg THEN -v ELSE v
        bad == [kind |-> "nan", i |-> 0, f |-> <<>>]
    IN IF dots = {}
       THEN IF body # <<>> /\ AllDigits(body)
            THEN [kind |-> "int", i |-> sign(StrToNat(body)), f |-> <<>>] ELSE bad
       ELSE IF Cardinality(dots) > 1 THEN bad
       ELSE LET p == CHOOSE q \in dots : TRUE
                whole == SubSeq(body, 1, p - 1)
                frac == SubSeq(body, p + 1, Len(body))
            IN IF ~AllDigits(whole) \/ ~AllDigits(frac) \/ Len(body) = 1 THEN bad
               ELSE IF \A j \in 1..Len(frac) : frac[j] = "0"
               THEN [kind |-> "int", i |-> sign(StrToNat(whole)), f |-> <<>>]
               ELSE [kind |-> "frac", i |-> sign(StrToNat(whole)),
                     f |-> StripZeros(frac)]

\* pd.to_numeric(series, errors='coerce') for one cell.
ToNumeric(c) ==
    CASE c.k = "str" -> ParseNum(c.s)
      [] c.k \in {"int", "bool"} -> [kind |-> "int", i |-> c.i, f |-> <<>>]
      [] c.k = "float" -> [kind |-> "frac", i |-> c.i, f |-> c.s]
      [] IsNull(c) -> [kind |-> "nan", i |-> 0, f |-> <<>>]

\* The table map_to_bool of lines 85-86 as Series.map applies it: the mapped
\* boolean, or NaN for a cell that is no key.
MapToBool(c) ==
    LET truthy == {<<"t", "r", "u", "e">>, <<"T", "r", "u", "e">>,
                   <<"T", "R", "U", "E">>, <<"1">>}
        falsy == {<<"f", "a", "l", "s", "e">>, <<"F", "a", "l", "s", "e">>,
                  <<"F", "A", "L", "S", "E">>, <<"0">>}
    IN CASE c.k = "str" /\ c.s \in truthy -> BoolCell(TRUE)
         [] c.k = "str" /\ c.s \in falsy -> BoolCell(FALSE)
         [] c.k \in {"int", "bool"} /\ c.i = 1 -> BoolCell(TRUE)
         [] c.k \in {"int", "bool"} /\ c.i = 0 -> BoolCell(FALSE)
         [] OTHER -> NaN

\* astype(bool) for one cell of the mapped series: bool(NaN) is True.
AsBool(c) == IF c.k = "bool" THEN c ELSE BoolCell(TRUE)

SupportedTypes == {"int", "float", "str", "datetime", "bool"}

\* One pass of the loop body (lines 67-97) for the entry column: new_type;
\* skipped is one of the warnings of lines 93, 95 and 97.  A conversion to
\* 'datetime' is not modelled and is never drawn.
ConvertColumn(df, column, new_type) ==
    IF ~HasColumn(df, column) THEN Skipped(df)
    ELSE
    LET series == Column(df, column)
        dt == DTypeOf(df, column)
        n == NRows(df)
        num == [r \in 1..n |-> ToNumeric(series[r])]
    IN CASE new_type = "int" ->
                \* astype('Int64') raises on a number with a fraction
                IF \E r \in 1..n : num[r].kind = "frac" THEN Skipped(df)
                ELSE Applied(SetColumn(df, column, "Int64",
                         [r \in 1..n |-> IF num[r].kind = "int"
                                         THEN IntCell(num[r].i) ELSE NA]))
         [] new_type = "float" ->
                Applied(SetColumn(df, column, "float64",
                    [r \in 1..n |-> CASE num[r].kind = "int" -> IntCell(num[r].i)
                                      [] num[r].kind = "frac" ->
                                            FloatCell(num[r].i, num[r].f)
                                      [] OTHER -> NaN]))
         [] new_type = "str" ->
                Applied(SetColumn(df, column, "object",
                    [r \in 1..n |-> StrCell(CellToStr(series[r], dt))]))
         [] new_type = "bool" ->
                Applied(SetColumn(df, column, "bool",
                    [r \in 1..n |-> AsBool(MapToBool(series[r]))]))
         [] new_type \notin SupportedTypes -> Skipped(df)

\* ---------------------------------------------------- the datasets drawn

NumCell(v) == IF v = 0 THEN NaN ELSE IntCell(v)

\* The rows of the input files, by content: the number of column n (0 for an
\* empty field) and the text of column s (NaN for an empty field).
RowPatterns ==
    <<[n |-> NumCell(1), s |-> StrCell(<<"a">>)],
      [n |-> NumCell(2), s |-> NaN],
      [n |-> NumCell(0), s |-> StrCell(<<"n", "a">>)],
      [n |-> NumCell(3), s |-> StrCell(<<"1">>)]>>

\* The row at 0-based line j of the file that starts at pattern shift.
FileRow(shift, j) == RowPatterns[((shift + j) % Len(RowPatterns)) + 1]

\* What the reader (pd.read_csv) returns for the first k rows of a file:
\* columns n and s, a RangeIndex, n of dtype int64 when every field holds a
\* number and float64 when one is empty, s of dtype object; a file with a
\* header and no rows gives two object columns.
ReadData(shift, k) ==
    LET rows == [r \in 1..k |-> <<FileRow(shift, r - 1).n, FileRow(shift, r - 1).s>>]
        ndt == IF k = 0 THEN "object"
               ELSE IF \E r \in 1..k : IsNull(rows[r][1]) THEN "float64"
               ELSE "int64"
    IN [columns |-> <<"n", "s">>,
        dtypes |-> <<ndt, "object">>,
        index |-> [r \in 1..k |-> r - 1],
        rows |-> rows]

Shifts == {0, 2}

Datasets == {ReadData(shift, k) : shift \in Shifts, k \in 0..MaxRows}

\* ---------------------------------------------- the configurations drawn

\* transform_options is [keys, column_mappings, filters, new_columns,
\* data_type_conversions]: keys lists the keys the section holds in the
\* order the template gives them, and a key that is absent has the value <<>>.
\* data_type_conversions is the sequence of the dict's (column, type) items.
KeyNames == {"column_mappings", "filters", "new_columns", "data_type_conversions"}

Options(keys, cm, fl, nc, tc) ==
    [keys |-> keys, column_mappings |-> cm, filters |-> fl,
     new_columns |-> nc, data_type_conversions |-> tc]

SeqsUpTo(S, n) == UNION {[1..m -> S] : m \in 0..n}

\* The sequences over S without a repeated element.
Orders(S) ==
    {q \in SeqsUpTo(S, Cardinality(S)) :
        \A a, b \in 1..Len(q) : a # b => q[a] # q[b]}

Mapping(from, to) == [from |-> from, to |-> to]

Filter(column, condition, value) ==
    [column |-> column, condition |-> condition, value |-> value]

ColDef(name, operation) ==
    [name |-> name, operation |-> operation, sources |-> <<>>,
     separator |-> <<>>, expression |-> NoExpr, source_column |-> None,
     has_value |-> FALSE, value |-> NoneCell]

Conversion(column, new_type) == [column |-> column, new_type |-> new_type]

\* One configuration with every section filled, so that every stage runs.
FullOptions ==
    Options(<<"column_mappings", "filters", "new_columns", "data_type_conversions">>,
            <<Mapping("n", "n"), Mapping("s", "t")>>,
            <<Filter("n", "notnull", Scalar(NoneCell))>>,
            <<[ColDef("c", "default_value") EXCEPT !.has_value = TRUE,
                                                   !.value = IntCell(7)]>>,
            <<Conversion("n", "int")>>)

\* The configurations of the pipeline as a whole: the keys in every order, and
\* under each key an empty section or the section of FullOptions.
PipelineOptions ==
    {Options(keys,
             IF \E j \in 1..Len(keys) : keys[j] = "column_mappings" THEN cm ELSE <<>>,
             IF \E j \in 1..Len(keys) : keys[j] = "filters" THEN fl ELSE <<>>,
             IF \E j \in 1..Len(keys) : keys[j] = "new_columns" THEN nc ELSE <<>>,
             IF \E j \in 1..Len(keys) : keys[j] = "data_type_conversions" THEN tc ELSE <<>>) :
        keys \in Orders(KeyNames),
        cm \in {<<>>, FullOptions.column_mappings},
        fl \in {<<>>, FullOptions.filters},
        nc \in {<<>>, FullOptions.new_columns},
        tc \in {<<>>, FullOptions.data_type_conversions}}

\* ------------------------------------------------------------ the pipeline

\* A local variable that holds no frame.
NoFrame == [columns |-> <<>>, dtypes |-> <<>>, index |-> <<>>, rows |-> <<>>]

\* 'key' in transform_options
HasKey(options, key) == \E j \in 1..Len(options.keys) : options.keys[j] = key

\* logger.info("Step n: ...") of lines 242, 248, 254 and 260.
StepMsg(n) == [msg |-> "step", stage |-> n, entry |-> 0]
\* The warning that entry number entry of stage n is skipped.
SkipMsg(n, entry) == [msg |-> "skip", stage |-> n, entry |-> entry]
\* The warning of line 154.
CoerceMsg(n, entry) == [msg |-> "coerce", stage |-> n, entry |-> entry]

\* What one loop pass adds to the log.
PassLog(n, entry, out) ==
    (IF out.coerced THEN <<CoerceMsg(n, entry)>> ELSE <<>>)
    \o (IF out.skipped THEN <<SkipMsg(n, entry)>> ELSE <<>>)

\* transform_data with the filter placed after the new columns.
StageAfterSwapped(stage) ==
    CASE stage = "map" -> "new_columns"
      [] stage = "new_columns" -> "filter"
      [] stage = "filter" -> "convert"
      [] stage = "convert" -> "return"

\* The statement order of transform_data (lines 240-265).
StageAfter(stage) ==
    CASE stage = "map" -> "filter"
      [] stage = "filter" -> "new_columns"
      [] stage = "new_columns" -> "convert"
      [] stage = "convert" -> "return"

Init0 ==
    /\ data_df \in Datasets
    /\ current_df = NoFrame
    /\ filtered_df = NoFrame
    /\ transformed_df = NoFrame
    /\ log = <<>>
    /\ idx = 0
    /\ pc = "main"

Init ==
    /\ transform_options \in PipelineOptions
    /\ Init0

\* convert.py lines 91-100 and transform_data lines 233-238: with a non-empty
\* section main calls transform_data, which works on a copy; else the data
\* passes through.
Main ==
    /\ pc = "main"
    /\ IF transform_options.keys # <<>>
       THEN /\ current_df' = data_df
            /\ pc' = "map"
            /\ UNCHANGED transformed_df
       ELSE /\ transformed_df' = data_df
            /\ pc' = "write"
            /\ UNCHANGED current_df
    /\ UNCHANGED <<data_df, transform_options, filtered_df, log, idx>>

\* The warnings of map_columns' loop (lines 24 and 35) and of line 41.
MapLog(df, column_mappings) ==
    LET F[j \in 0..Len(column_mappings)] ==
            IF j = 0 THEN <<>>
            ELSE IF ValidMapping(column_mappings[j])
                    /\ HasColumn(df, column_mappings[j].from)
                 THEN F[j - 1] ELSE Append(F[j - 1], SkipMsg(1, j))
        res == map_columns(df, column_mappings)
    IN F[Len(column_mappings)]
       \o (IF column_mappings # <<>> /\ ~res.raised
              /\ ColumnsToSelect(df, column_mappings) = <<>>
           THEN <<SkipMsg(1, 0)>> ELSE <<>>)

\* transform_data lines 241-244; an exception of map_columns ends main with
\* exit code 1 (convert.py lines 125-130).
MapColumnsStep ==
    /\ pc = "map"
    /\ IF HasKey(transform_options, "column_mappings")
       THEN LET res == map_columns(current_df, transform_options.column_mappings) IN
            /\ log' = log \o <<StepMsg(1)>>
                          \o MapLog(current_df, transform_options.column_mappings)
            /\ current_df' = res.df
            /\ pc' = IF res.raised THEN "exit1" ELSE StageAfter("map")
       ELSE /\ pc' = StageAfter("map")
            /\ UNCHANGED <<current_df, log>>
    /\ UNCHANGED <<data_df, transform_options, filtered_df, transformed_df, idx>>

\* transform_data lines 247-248 and filter_rows lines 106-111.
FilterRowsStep ==
    /\ pc = "filter"
    /\ IF HasKey(transform_options, "filters")
       THEN /\ log' = log \o <<StepMsg(2)>>
            /\ IF transform_options.filters = <<>>
               THEN pc' = StageAfter("filter") /\ UNCHANGED filtered_df
               ELSE pc' = "filter_loop" /\ filtered_df' = current_df
       ELSE /\ pc' = StageAfter("filter")
            /\ UNCHANGED <<filtered_df, log>>
    /\ idx' = 0
    /\ UNCHANGED <<data_df, transform_options, current_df, transformed_df>>

\* The loop pass with the mask applied to the frame filter_rows was given.
FilterPassOnInput ==
    /\ pc = "filter_loop"
    /\ idx < Len(transform_options.filters)
    /\ LET out == ApplyFilter(current_df, transform_options.filters[idx + 1]) IN
       /\ filtered_df' = out.df
       /\ log' = log \o PassLog(2, idx + 1, out)
    /\ idx' = idx + 1
    /\ UNCHANGED <<data_df, transform_options, current_df, transformed_df, pc>>

\* filter_rows lines 112-166: one pass of the loop.
FilterPass ==
    /\ pc = "filter_loop"
    /\ idx < Len(transform_options.filters)
    /\ LET out == ApplyFilter(filtered_df, transform_options.filters[idx + 1]) IN
       /\ filtered_df' = out.df
       /\ log' = log \o PassLog(2, idx + 1, out)
    /\ idx' = idx + 1
    /\ UNCHANGED <<data_df, transform_options, current_df, transformed_df, pc>>

\* filter_rows line 168 and transform_data line 249.
FilterReturn ==
    /\ pc = "filter_loop"
    /\ idx = Len(transform_options.filters)
    /\ current_df' = filtered_df
    /\ filtered_df' = NoFrame
    /\ idx' = 0
    /\ pc' = StageAfter("filter")
    /\ UNCHANGED <<data_df, transform_options, transformed_df, log>>

\* transform_data lines 253-254 and add_new_columns lines 175-177.
AddNewColumnsStep ==
    /\ pc = "new_columns"
    /\ IF HasKey(transform_options, "new_columns")
       THEN /\ log' = log \o <<StepMsg(3)>>
            /\ pc' = IF transform_options.new_columns = <<>>
                     THEN StageAfter("new_columns") ELSE "new_columns_loop"
       ELSE /\ pc' = StageAfter("new_columns")
            /\ UNCHANGED log
    /\ idx' = 0
    /\ UNCHANGED <<data_df, transform_options, current_df, filtered_df, transformed_df>>

\* The loop pass with the entry evaluated on the columns the input had.
AddPassOnInputColumns ==
    /\ pc = "new_columns_loop"
    /\ idx < Len(transform_options.new_columns)
    /\ LET col_def == transform_options.new_columns[idx + 1]
           seen == SelectColumns(current_df, data_df.columns)
           out == ApplyColDef(seen, col_def)
       IN /\ current_df' = IF out.skipped THEN current_df
                           ELSE SetColumn(current_df, col_def.name,
                                          DTypeOf(out.df, col_def.name),
                                          Column(out.df, col_def.name))
          /\ log' = log \o PassLog(3, idx + 1, out)
    /\ idx' = idx + 1
    /\ UNCHANGED <<data_df, transform_options, filtered_df, transformed_df, pc>>

\* add_new_columns lines 180-224: one pass of the loop, on the frame itself.
AddPass ==
    /\ pc = "new_columns_loop"
    /\ idx < Len(transform_options.new_columns)
    /\ LET out == ApplyColDef(current_df, transform_options.new_columns[idx + 1]) IN
       /\ current_df' = out.df
       /\ log' = log \o PassLog(3, idx + 1, out)
    /\ idx' = idx + 1
    /\ UNCHANGED <<data_df, transform_options, filtered_df, transformed_df, pc>>

\* add_new_columns line 225 and transform_data line 255.
AddReturn ==
    /\ pc = "new_columns_loop"
    /\ idx = Len(transform_options.new_columns)
    /\ idx' = 0
    /\ pc' = StageAfter("new_columns")
    /\ UNCHANGED <<data_df, transform_options, current_df, filtered_df,
                   transformed_df, log>>

\* transform_data lines 259-260 and convert_data_types lines 61-63.
ConvertDataTypesStep ==
    /\ pc = "convert"
    /\ IF HasKey(transform_options, "data_type_conversions")
       THEN /\ log' = log \o <<StepMsg(4)>>
            /\ pc' = IF transform_options.data_type_conversions = <<>>
                     THEN StageAfter("convert") ELSE "convert_loop"
       ELSE /\ pc' = StageAfter("convert")
            /\ UNCHANGED log
    /\ idx' = 0
    /\ UNCHANGED <<data_df, transform_options, current_df, filtered_df, transformed_df>>

\* The loop pass with a skipped entry ending the loop.
ConvertPassStopsOnSkip ==
    /\ pc = "convert_loop"
    /\ idx < Len(transform_options.data_type_conversions)
    /\ LET e == transform_options.data_type_conversions[idx + 1]
           out == ConvertColumn(current_df, e.column, e.new_type)
       IN /\ current_df' = out.df
          /\ log' = log \o PassLog(4, idx + 1, out)
          /\ idx' = IF out.skipped THEN 0 ELSE idx + 1
          /\ pc' = IF out.skipped THEN StageAfter("convert") ELSE pc
    /\ UNCHANGED <<data_df, transform_options, filtered_df, transformed_df>>

\* convert_data_types lines 66-97: one pass of the loop, on the frame itself.
ConvertPass ==
    /\ pc = "convert_loop"
    /\ idx < Len(transform_options.data_type_conversions)
    /\ LET e == transform_options.data_type_conversions[idx + 1]
           out == ConvertColumn(current_df, e.column, e.new_type)
       IN /\ current_df' = out.df
          /\ log' = log \o PassLog(4, idx + 1, out)
    /\ idx' = idx + 1
    /\ UNCHANGED <<data_df, transform_options, filtered_df, transformed_df, pc>>

\* convert_data_types line 98 and transform_data line 261.
ConvertReturn ==
    /\ pc = "convert_loop"
    /\ idx = Len(transform_options.data_type_conversions)
    /\ idx' = 0
    /\ pc' = StageAfter("convert")
    /\ UNCHANGED <<data_df, transform_options, current_df, filtered_df,
                   transformed_df, log>>

\* transform_data line 265 and convert.py line 94.
Return ==
    /\ pc = "return"
    /\ transformed_df' = current_df
    /\ pc' = "write"
    /\ UNCHANGED <<data_df, transform_options, current_df, filtered_df, log, idx>>

Next ==
    \/ Main
    \/ MapColumnsStep
    \/ FilterRowsStep
    \/ FilterPass
    \/ FilterReturn
    \/ AddNewColumnsStep
    \/ AddPass
    \/ AddReturn
    \/ ConvertDataTypesStep
    \/ ConvertPass
    \/ ConvertReturn
    \/ Return

Spec == Init /\ [][Next]_vars

\* ------------------------------------------------- the other specifications

\* map_columns on every list of up to MaxEntries mapping entries: 'from'
\* names a column, no column, or is absent; 'to' is a new name, the name of
\* a column, or absent.
MapEntries ==
    {Mapping(from, to) : from \in {"n", "s", "zz", Missing},
                         to \in {"x", "y", "n", Missing}}

MapOptions ==
    {Options(<<"column_mappings">>, cm, <<>>, <<>>, <<>>) :
        cm \in SeqsUpTo(MapEntries, MaxEntries)}

InitMap ==
    /\ transform_options \in MapOptions \cup {FullOptions}
    /\ Init0

SpecMap == InitMap /\ [][Next]_vars

\* filter_rows on every list of up to MaxEntries of these filters: each
\* condition of the code on the numeric column n or the text column s, with
\* a value of the right and of the wrong type, an unknown column and an
\* unknown condition.
FilterEntries ==
    LET int(v) == Scalar(IntCell(v))
        str(v) == Scalar(StrCell(v))
        none == Scalar(NoneCell)
    IN {Filter("n", ">", int(1)), Filter("n", "<", int(3)),
        Filter("n", ">=", int(2)), Filter("s", "<=", str(<<"a">>)),
        Filter("n", "==", int(2)), Filter("s", "!=", str(<<"a">>)),
        Filter("n", ">", str(<<"a">>)), Filter("s", ">", int(1)),
        Filter("n", "isin", List(<<IntCell(1), StrCell(<<"a">>)>>)),
        Filter("s", "notin", List(<<StrCell(<<"a">>)>>)),
        Filter("n", "isin", int(1)),
        Filter("s", "isnull", none), Filter("n", "notnull", none),
        Filter("s", "contains", str(<<"a">>)), Filter("n", "contains", str(<<"a">>)),
        Filter("s", "startswith", str(<<"n">>)), Filter("n", "startswith", str(<<"n">>)),
        Filter("s", "endswith", str(<<"a">>)), Filter("n", "endswith", str(<<"0">>)),
        Filter("zz", "==", int(1)), Filter("n", "between", none)}

FilterOptions ==
    {Options(<<"filters">>, <<>>, fl, <<>>, <<>>) :
        fl \in SeqsUpTo(FilterEntries, MaxEntries)}

InitFilter ==
    /\ transform_options \in FilterOptions \cup {FullOptions}
    /\ Init0

SpecFilter == InitFilter /\ [][Next]_vars

\* add_new_columns on every list of up to MaxEntries of these definitions:
\* each operation with its sources among the input's columns n and s, a
\* column c that an earlier definition may have made, and a column zz that
\* no frame has; definitions that lack a key, and an unknown operation.
ColDefs ==
    LET dash == <<"-">>
        add(a, b) == [op |-> "add", a |-> a, b |-> b]
        col(a) == [op |-> "col", a |-> a, b |-> None]
        default(name, v) ==
            [ColDef(name, "default_value") EXCEPT !.has_value = TRUE, !.value = v]
        copy(name, src) == [ColDef(name, "copy") EXCEPT !.source_column = src]
        concat(name, srcs, sep) ==
            [ColDef(name, "concat") EXCEPT !.sources = srcs, !.separator = sep]
        eval(name, e) == [ColDef(name, "eval") EXCEPT !.expression = e]
    IN {default("c", IntCell(7)), default("c", NoneCell),
        ColDef("c", "default_value"), default("n", IntCell(7)),
        copy("d", "c"), copy("d", "n"), copy("c", "zz"), ColDef("c", "copy"),
        copy("s", "n"),
        concat("d", <<"c", "s">>, dash), concat("c", <<"n", "s">>, <<>>),
        concat("c", <<"zz">>, <<>>),
        eval("c", add("n", "n")), eval("d", add("c", "n")),
        eval("c", add("c", "n")), eval("c", add("n", "s")),
        ColDef("c", "eval"), eval("c", col("zz")),
        ColDef("c", "upper"), copy(None, "n"), ColDef("c", None)}

SynthOptions ==
    {Options(<<"new_columns">>, <<>>, <<>>, nc, <<>>) :
        nc \in SeqsUpTo(ColDefs, MaxEntries)}

InitSynth ==
    /\ transform_options \in SynthOptions \cup {FullOptions}
    /\ Init0

SpecSynth == InitSynth /\ [][Next]_vars

\* convert_data_types on files whose text column s holds numbers, numbers
\* with a fraction, boolean tokens and other text, next to a numeric column
\* n.  The rows of those files, by content:
ConvertPatterns ==
    <<[n |-> IntCell(1), s |-> StrCell(<<"1">>)],
      [n |-> IntCell(0), s |-> StrCell(<<"b", "a", "d">>)],
      [n |-> NaN,        s |-> StrCell(<<"3">>)],
      [n |-> IntCell(3), s |-> StrCell(<<"1", ".", "5">>)],
      [n |-> IntCell(1), s |-> StrCell(<<"t", "r", "u", "e">>)],
      [n |-> IntCell(2), s |-> StrCell(<<"0">>)],
      [n |-> IntCell(0), s |-> NaN]>>

\* What the reader returns for the k rows of such a file from pattern shift
\* on: as ReadData, with s of dtype object because one field of it is text
\* that is no number.
ReadConvertData(shift, k) ==
    LET row(r) == ConvertPatterns[((shift + r - 1) % Len(ConvertPatterns)) + 1]
        rows == [r \in 1..k |-> <<row(r).n, row(r).s>>]
    IN [columns |-> <<"n", "s">>,
        dtypes |-> <<IF \E r \in 1..k : IsNull(rows[r][1]) THEN "float64"
                     ELSE "int64", "object">>,
        index |-> [r \in 1..k |-> r - 1],
        rows |-> rows]

\* The files drawn: those the reader leaves a text column in, and the file
\* of a header without rows.
ConvertDatasets ==
    {df \in {ReadConvertData(shift, k) :
                shift \in 0..(Len(ConvertPatterns) - 1), k \in 1..MaxRows} :
        \E r \in 1..NRows(df) :
            df.rows[r][2].k = "str" /\ ParseNum(df.rows[r][2].s).kind = "nan"}
    \cup {ReadData(0, 0)}

\* The items of the dict data_type_conversions: a column the files have or
\* one they lack, and a type tag of the code or one it does not know.
ConvertEntries ==
    {Conversion(column, new_type) :
        column \in {"n", "s", "zz"},
        new_type \in {"int", "float", "str", "bool", "integer"}}

\* A dict has each key once.
ConvertOptions ==
    {Options(<<"data_type_conversions">>, <<>>, <<>>, <<>>, tc) :
        tc \in {l \in SeqsUpTo(ConvertEntries, MaxEntries) :
                   \A a, b \in DOMAIN l : a # b => l[a].column # l[b].column}}

InitConvert ==
    \/ /\ transform_options \in ConvertOptions
       /\ data_df \in ConvertDatasets
       /\ current_df = NoFrame
       /\ filtered_df = NoFrame
       /\ transformed_df = NoFrame
       /\ log = <<>>
       /\ idx = 0
       /\ pc = "main"
    \/ /\ transform_options = FullOptions
       /\ Init0

SpecConvert == InitConvert /\ [][Next]_vars

\* ------------------------------------------------------------------ claims

StageNo(key) ==
    CASE key = "column_mappings" -> 1
      [] key = "filters" -> 2
      [] key = "new_columns" -> 3
      [] key = "data_type_conversions" -> 4

StepsLogged == {log[a].stage : a \in {b \in DOMAIN log : log[b].msg = "step"}}

\* C1: transform_data runs the stages in the order mapping, filtering,
\* synthesis, coercion, whatever the dataset holds and in whatever order the
\* configuration lists its keys: the log never shows a stage after a later
\* one, shows each stage's "Step" message once, and at the end shows
\* exactly the stages whose key the configuration holds.
C1_StageOrder ==
    /\ \A a, b \in DOMAIN log :
          a < b => /\ log[a].stage <= log[b].stage
                   /\ (log[a].msg = "step" /\ log[b].msg = "step"
                          => log[a].stage < log[b].stage)
    /\ pc = "write" /\ transform_options.keys # <<>>
          => StepsLogged = {StageNo(transform_options.keys[j]) :
                               j \in DOMAIN transform_options.keys}

\* C1's case: all four stages have run for a configuration that lists its
\* keys in the reverse of the stage order, on a dataset with rows.
C1_Witness ==
    /\ pc = "write"
    /\ transform_options.keys =
          <<"data_type_conversions", "new_columns", "filters", "column_mappings">>
    /\ StepsLogged = {1, 2, 3, 4}
    /\ NRows(data_df) > 0

AllSectionsEmpty ==
    /\ transform_options.column_mappings = <<>>
    /\ transform_options.filters = <<>>
    /\ transform_options.new_columns = <<>>
    /\ transform_options.data_type_conversions = <<>>

\* C2: a stage whose section is absent or empty hands the dataset on as it
\* got it (columns, dtypes, row labels and cells), and a run in which no
\* section holds an entry hands the writer the reader's dataset.
C2_EmptySectionIsNoOp ==
    [][/\ pc = "map" /\ transform_options.column_mappings = <<>>
          => current_df' = current_df /\ pc' = "filter"
       /\ pc = "filter" /\ transform_options.filters = <<>>
          => current_df' = current_df /\ pc' = "new_columns"
       /\ pc = "new_columns" /\ transform_options.new_columns = <<>>
          => current_df' = current_df /\ pc' = "convert"
       /\ pc = "convert" /\ transform_options.data_type_conversions = <<>>
          => current_df' = current_df /\ pc' = "return"
       /\ pc' = "write" /\ AllSectionsEmpty
          => transformed_df' = data_df]_vars

\* C2's case: a run whose sections are all there and all empty has reached
\* the writer with a dataset that has rows.
C2_Witness ==
    /\ pc = "write"
    /\ Len(transform_options.keys) = 4
    /\ AllSectionsEmpty
    /\ transformed_df = data_df
    /\ NRows(data_df) > 1

\* The entries of a mapping list whose 'from' names a column of df.
RECURSIVE Resolving(_, _)
Resolving(df, column_mappings) ==
    IF column_mappings = <<>> THEN <<>>
    ELSE IF HasColumn(df, Head(column_mappings).from)
         THEN <<Head(column_mappings)>> \o Resolving(df, Tail(column_mappings))
         ELSE Resolving(df, Tail(column_mappings))

\* C3: when an entry's 'from' names a column, map_columns returns without
\* raising the dataset that holds, for each resolving entry in list order,
\* the column its 'from' names under the name its 'to' gives, and no other
\* column.  Stated for the lists whose entries all have both keys.
C3_MappedColumns ==
    [][pc = "map" /\ HasKey(transform_options, "column_mappings")
          /\ (\A e \in Range(transform_options.column_mappings) : ValidMapping(e))
          /\ Resolving(current_df, transform_options.column_mappings) # <<>>
       => LET res == Resolving(current_df, transform_options.column_mappings) IN
          /\ pc' = "filter"
          /\ current_df'.columns = [j \in 1..Len(res) |-> res[j].to]
          /\ current_df'.index = current_df.index
          /\ \A j \in 1..Len(res) :
                /\ current_df'.dtypes[j] = DTypeOf(current_df, res[j].from)
                /\ [r \in 1..NRows(current_df) |-> current_df'.rows[r][j]]
                      = Column(current_df, res[j].from)]_vars

\* C4: when the mapping list is not empty and no entry's 'from' names a
\* column, map_columns returns the dataset it was given.
C4_NothingResolves ==
    [][pc = "map" /\ transform_options.column_mappings # <<>>
          /\ Resolving(current_df, transform_options.column_mappings) = <<>>
       => pc' = "filter" /\ current_df' = current_df]_vars

\* The frame that holds row r of df alone.
RowFrame(df, r) ==
    [df EXCEPT !.index = <<df.index[r]>>, !.rows = <<df.rows[r]>>]

\* Row r of df satisfies filter f: the filter, run on that row alone, is
\* applied and keeps it.
RowPasses(df, r, f) ==
    LET out == ApplyFilter(RowFrame(df, r), f) IN
    ~out.skipped /\ NRows(out.df) = 1

\* The filters among the first k that the log does not show as skipped.
AppliedFilters(k) ==
    {j \in 1..k : \A a \in DOMAIN log : log[a] # SkipMsg(2, j)}

\* The members of a set of numbers in increasing order.
Sorted(S) ==
    [j \in 1..Cardinality(S) |->
        CHOOSE r \in S : Cardinality({q \in S : q < r}) = j - 1]

\* C5: while filter_rows runs, and when it returns, its working frame holds
\* exactly the rows of the frame it was given that satisfy every filter
\* applied so far, in the order and with the labels they had there.
C5_FilterConjunction ==
    pc = "filter_loop" =>
        LET keep == {r \in 1..NRows(current_df) :
                        \A j \in AppliedFilters(idx) :
                            RowPasses(current_df, r, transform_options.filters[j])}
            order == Sorted(keep)
        IN /\ filtered_df.columns = current_df.columns
           /\ filtered_df.dtypes = current_df.dtypes
           /\ filtered_df.index = [j \in 1..Len(order) |-> current_df.index[order[j]]]
           /\ filtered_df.rows = [j \in 1..Len(order) |-> current_df.rows[order[j]]]

\* C5's case: two filters have been applied; one row fails only the first,
\* another only the second, a third passes both and is what is left.
C5_Witness ==
    /\ pc = "filter_loop" /\ idx = 2
    /\ AppliedFilters(2) = {1, 2}
    /\ NRows(filtered_df) = 1
    /\ \E r1, r2 \in 1..NRows(current_df) :
          /\ r1 < r2
          /\ ~RowPasses(current_df, r1, transform_options.filters[1])
          /\ RowPasses(current_df, r1, transform_options.filters[2])
          /\ RowPasses(current_df, r2, transform_options.filters[1])
          /\ ~RowPasses(current_df, r2, transform_options.filters[2])

KnownConditions ==
    Comparisons \cup {"isin", "notin", "isnull", "notnull"} \cup StringConditions

\* The faults of a filter entry that C6 lists, on the frame the entry meets.
FaultyFilter(frame, f) ==
    \/ ~HasColumn(frame, f.column)
    \/ f.condition \notin KnownConditions
    \/ f.condition \in {"isin", "notin"} /\ f.value.t # "list"
    \/ /\ f.condition \in Comparisons
       /\ CompareSeries(Column(frame, f.column), DTypeOf(frame, f.column),
                        f.condition, f.value.c).err

\* C6: a pass of the filter loop over a faulty entry leaves the working
\* frame as it was and goes on to the next entry, and the loop is left only
\* by its return, after the last entry.
C6_FaultyFilterSkipped ==
    [][pc = "filter_loop" =>
          /\ idx < Len(transform_options.filters)
                /\ FaultyFilter(filtered_df, transform_options.filters[idx + 1])
             => /\ filtered_df' = filtered_df
                /\ pc' = "filter_loop"
                /\ idx' = idx + 1
          /\ pc' # "filter_loop"
             => /\ idx = Len(transform_options.filters)
                /\ pc' = "new_columns"
                /\ current_df' = filtered_df]_vars

\* C6's case: the first of two entries was faulty and skipped, the second
\* was applied after it and removed a row.
C6_Witness ==
    /\ pc = "filter_loop" /\ idx = 2
    /\ AppliedFilters(2) = {2}
    /\ FaultyFilter(current_df, transform_options.filters[1])
    /\ 0 < NRows(filtered_df) /\ NRows(filtered_df) < NRows(current_df)

\* C7: after a pass of the filter loop with contains, startswith or endswith
\* on a column the frame has, no row is left whose cell in that column is
\* null.
C7_NullNeverMatches ==
    [][pc = "filter_loop" /\ idx < Len(transform_options.filters)
          /\ transform_options.filters[idx + 1].condition \in StringConditions
          /\ HasColumn(filtered_df, transform_options.filters[idx + 1].column)
       => \A r \in 1..NRows(filtered_df') :
             ~IsNull(Column(filtered_df', transform_options.filters[idx + 1].column)[r])]_vars

Operations == {"concat", "eval", "copy", "default_value"}

\* The column names a definition reads.
SourcesOf(col_def) ==
    CASE col_def.operation = "concat" -> Range(col_def.sources)
      [] col_def.operation = "copy" -> {col_def.source_column} \ {None}
      [] col_def.operation = "eval" ->
            {col_def.expression.a, col_def.expression.b} \ {None}
      [] OTHER -> {}

\* The faults of a definition that C9 lists, on the frame the definition
\* meets; an evaluation fails when eval raises and when concat is given
\* several sources on a frame without rows.
FaultyColDef(df, col_def) ==
    \/ col_def.name = None
    \/ col_def.operation = None
    \/ col_def.operation \notin Operations
    \/ /\ col_def.operation \in {"concat", "copy"}
       /\ \E c \in SourcesOf(col_def) : ~HasColumn(df, c)
    \/ col_def.operation = "copy" /\ col_def.source_column = None
    \/ col_def.operation = "eval" /\ col_def.expression.op = "none"
    \/ /\ col_def.operation = "eval" /\ col_def.expression.op # "none"
       /\ Eval(df, col_def.expression).err
    \/ /\ col_def.operation = "concat"
       /\ NRows(df) = 0 /\ Len(col_def.sources) > 1

\* The cells a definition without a fault computes from the frame df.
ExpectedCells(df, col_def) ==
    CASE col_def.operation = "concat" ->
            [r \in 1..NRows(df) |->
                StrCell(ConcatRow(df, col_def.sources, col_def.separator, r))]
      [] col_def.operation = "eval" -> Eval(df, col_def.expression).cells
      [] col_def.operation = "copy" -> Column(df, col_def.source_column)
      [] col_def.operation = "default_value" ->
            [r \in 1..NRows(df) |-> col_def.value]

\* C8: a pass of the add_new_columns loop takes the next definition of the
\* list and, unless it is faulty, computes its column from the frame as the
\* passes before left it: a name the frame has keeps its place and gets the
\* new cells, a new name is added as the last column, and every other
\* column, the rows and their labels stay as they were.
C8_NewColumnsInOrder ==
    [][pc = "new_columns_loop" /\ idx < Len(transform_options.new_columns)
          /\ ~FaultyColDef(current_df, transform_options.new_columns[idx + 1])
          /\ (transform_options.new_columns[idx + 1].operation = "default_value"
                 => transform_options.new_columns[idx + 1].has_value)
       => LET col_def == transform_options.new_columns[idx + 1] IN
          /\ idx' = idx + 1
          /\ current_df'.columns =
                IF HasColumn(current_df, col_def.name) THEN current_df.columns
                ELSE Append(current_df.columns, col_def.name)
          /\ current_df'.index = current_df.index
          /\ Column(current_df', col_def.name) = ExpectedCells(current_df, col_def)
          /\ \A c \in Range(current_df.columns) \ {col_def.name} :
                /\ Column(current_df', c) = Column(current_df, c)
                /\ DTypeOf(current_df', c) = DTypeOf(current_df, c)]_vars

\* C8's case: the first definition made a column the input did not have,
\* the second read that column and replaced it with what it computed.
C8_Witness ==
    /\ pc = "new_columns_loop" /\ idx = 2
    /\ \A a \in DOMAIN log : log[a].msg # "skip"
    /\ LET first == transform_options.new_columns[1]
           second == transform_options.new_columns[2]
       IN /\ ~HasColumn(data_df, first.name)
          /\ first.name \in SourcesOf(second)
          /\ second.name = first.name
          /\ second.operation = "eval"
          /\ NRows(current_df) > 0
          /\ Column(current_df, second.name) =
                [r \in 1..NRows(data_df) |->
                    AddCells(first.value, Column(data_df, second.expression.b)[r])]

\* C9: a pass of the add_new_columns loop over a faulty definition leaves
\* the frame as it was and goes on to the next definition, and the loop is
\* left only by its return, after the last definition.
C9_FaultyColDefSkipped ==
    [][pc = "new_columns_loop" =>
          /\ idx < Len(transform_options.new_columns)
                /\ FaultyColDef(current_df, transform_options.new_columns[idx + 1])
             => /\ current_df' = current_df
                /\ pc' = "new_columns_loop"
                /\ idx' = idx + 1
          /\ pc' # "new_columns_loop"
             => /\ idx = Len(transform_options.new_columns)
                /\ pc' = "convert"
                /\ current_df' = current_df]_vars

\* C9's case: the first of two definitions was faulty and skipped, the
\* second was applied after it and added its column.
C9_Witness ==
    /\ pc = "new_columns_loop" /\ idx = 2
    /\ FaultyColDef(data_df, transform_options.new_columns[1])
    /\ \E a \in DOMAIN log : log[a] = SkipMsg(3, 1)
    /\ \A a \in DOMAIN log : log[a] # SkipMsg(3, 2)
    /\ NCols(current_df) = NCols(data_df) + 1
    /\ NRows(current_df) > 0

\* C10: a pass of the add_new_columns loop over a named default_value
\* definition that has a value, null or not, leaves the frame with that
\* column holding the value in every row; over one that has no value it
\* leaves the frame as it was.
C10_DefaultValue ==
    [][pc = "new_columns_loop" /\ idx < Len(transform_options.new_columns)
          /\ transform_options.new_columns[idx + 1].operation = "default_value"
          /\ transform_options.new_columns[idx + 1].name # None
       => LET col_def == transform_options.new_columns[idx + 1] IN
          IF col_def.has_value
          THEN /\ HasColumn(current_df', col_def.name)
               /\ NRows(current_df') = NRows(current_df)
               /\ \A r \in 1..NRows(current_df') :
                     Column(current_df', col_def.name)[r] = col_def.value
          ELSE current_df' = current_df]_vars

\* C10's case: a default_value definition whose value is null has made its
\* column, null in every row.
C10_Witness ==
    /\ pc = "new_columns_loop" /\ idx = 1
    /\ LET col_def == transform_options.new_columns[1] IN
       /\ col_def.operation = "default_value"
       /\ col_def.has_value /\ col_def.value = NoneCell
       /\ ~HasColumn(data_df, col_def.name)
       /\ HasColumn(current_df, col_def.name)
       /\ NRows(current_df) > 0
       /\ \A r \in 1..NRows(current_df) :
             Column(current_df, col_def.name)[r] = NoneCell

\* The cell c holds the number that to_numeric reads as num.
HoldsNumber(c, num) ==
    \/ num.kind = "int" /\ c = IntCell(num.i)
    \/ num.kind = "frac" /\ c = FloatCell(num.i, num.f)

\* C11: after a pass of the convert_data_types loop that converts a column
\* the frame has to int or to float, every cell of the column that parsed
\* as a number holds that number and every other cell is null.
C11_NumericCellwise ==
    [][pc = "convert_loop" /\ idx < Len(transform_options.data_type_conversions)
          /\ transform_options.data_type_conversions[idx + 1].new_type
                \in {"int", "float"}
          /\ HasColumn(current_df, transform_options.data_type_conversions[idx + 1].column)
       => LET column == transform_options.data_type_conversions[idx + 1].column IN
          \A r \in 1..NRows(current_df) :
             LET num == ToNumeric(Column(current_df, column)[r])
                 after == Column(current_df', column)[r]
             IN IF num.kind = "nan" THEN IsNull(after)
                ELSE HoldsNumber(after, num)]_vars

\* C12: after a pass of the convert_data_types loop that converts a column
\* the frame has to bool, every cell that was a truthy token of the table
\* is true and every other cell, a null among them, is false.
C12_BoolDefaultFalse ==
    [][pc = "convert_loop" /\ idx < Len(transform_options.data_type_conversions)
          /\ transform_options.data_type_conversions[idx + 1].new_type = "bool"
          /\ HasColumn(current_df, transform_options.data_type_conversions[idx + 1].column)
       => LET column == transform_options.data_type_conversions[idx + 1].column IN
          \A r \in 1..NRows(current_df) :
             Column(current_df', column)[r] =
                BoolCell(MapToBool(Column(current_df, column)[r]) = BoolCell(TRUE))]_vars

\* The faults of a conversion entry that C13 lists, on the frame the entry
\* meets; a conversion raises when a cell with a fraction is to become int.
FaultyConversion(df, e) ==
    \/ ~HasColumn(df, e.column)
    \/ e.new_type \notin SupportedTypes
    \/ /\ e.new_type = "int" /\ HasColumn(df, e.column)
       /\ \E r \in 1..NRows(df) : ToNumeric(Column(df, e.column)[r]).kind = "frac"

\* C13: a pass of the convert_data_types loop over a faulty entry leaves
\* the frame as it was and goes on to the next entry, and the loop is left
\* only by its return, after the last entry.
C13_FaultyConversionSkipped ==
    [][pc = "convert_loop" =>
          /\ idx < Len(transform_options.data_type_conversions)
                /\ FaultyConversion(current_df,
                       transform_options.data_type_conversions[idx + 1])
             => /\ current_df' = current_df
                /\ pc' = "convert_loop"
                /\ idx' = idx + 1
          /\ pc' # "convert_loop"
             => /\ idx = Len(transform_options.data_type_conversions)
                /\ pc' = "return"
                /\ current_df' = current_df]_vars

\* C13's case: the first of two entries raised and was skipped, the second
\* was applied after it and converted its column.
C13_Witness ==
    /\ pc = "convert_loop" /\ idx = 2
    /\ LET first == transform_options.data_type_conversions[1]
           second == transform_options.data_type_conversions[2]
       IN /\ first.new_type = "int" /\ HasColumn(data_df, first.column)
          /\ FaultyConversion(data_df, first)
          /\ \E a \in DOMAIN log : log[a] = SkipMsg(4, 1)
          /\ \A a \in DOMAIN log : log[a] # SkipMsg(4, 2)
          /\ Column(current_df, first.column) = Column(data_df, first.column)
          /\ Column(current_df, second.column) # Column(data_df, second.column)

\* No two columns of df have the same name.
UniqueColumns(df) ==
    \A a, b \in 1..NCols(df) : a # b => df.columns[a] # df.columns[b]

\* C14: in every state of the pipeline the frame read, the frame the stages
\* work on, the filter's working frame and the frame handed to the writer
\* have no two columns of the same name.
C14_UniqueColumnNames ==
    /\ UniqueColumns(data_df)
    /\ UniqueColumns(current_df)
    /\ UniqueColumns(filtered_df)
    /\ UniqueColumns(transformed_df)

\* C15: while filter_rows, add_new_columns or convert_data_types runs, the
\* frame it was given, which current_df names until the function returns,
\* stays as it was, and no step changes the frame main read.
C15_StageInputUnchanged ==
    [][/\ pc \in {"filter_loop", "new_columns_loop", "convert_loop"} /\ pc' = pc
          => current_df' = current_df
       /\ data_df' = data_df]_vars

\* C16: from a state in which the frame the stages work on has no rows, no
\* step of transform_data raises, and the frame it leaves, the filter's
\* working frame and the frame handed to the writer have no rows.
C16_EmptyStaysEmpty ==
    [][(/\ pc \in {"map", "filter", "filter_loop", "new_columns",
                   "new_columns_loop", "convert", "convert_loop", "return"}
        /\ NRows(current_df) = 0)
       => (/\ pc' # "exit1"
           /\ NRows(current_df') = 0
           /\ (pc' = "filter_loop") => (NRows(filtered_df') = 0)
           /\ (pc' = "write") => (NRows(transformed_df') = 0))]_vars

\* The sequence a is b with some of its members left out.
IsSubSeq(a, b) ==
    \E f \in [1..Len(a) -> 1..Len(b)] :
        /\ \A j \in 1..Len(a) : a[j] = b[f[j]]
        /\ \A j, q \in 1..Len(a) : j < q => f[j] < f[q]

\* C17: a step of the mapping, synthesis or coercion stage leaves the frame
\* with the rows it had, by label and in order, and in every state the rows
\* of the frame the stages work on and of the frame handed to the writer
\* are, by label and in order, rows of the frame main read.
C17_OnlyFilterChangesRows ==
    [][/\ pc \in {"map", "new_columns", "new_columns_loop", "convert", "convert_loop"}
          => /\ current_df'.index = current_df.index
             /\ NRows(current_df') = NRows(current_df)
       /\ IsSubSeq(current_df'.index, data_df.index)
       /\ NRows(current_df') = Len(current_df'.index)
       /\ IsSubSeq(transformed_df'.index, data_df.index)
       /\ NRows(transformed_df') = Len(transformed_df'.index)]_vars

\* C17's case: a run of all four stages has ended; the filter removed a
\* row, the mapping renamed a column, the synthesis added one, and the
\* rows left are handed to the writer.
C17_Witness ==
    /\ pc = "write"
    /\ Len(transform_options.keys) = 4
    /\ transform_options.column_mappings # <<>> /\ transform_options.filters # <<>>
    /\ transform_options.new_columns # <<>>
    /\ transform_options.data_type_conversions # <<>>
    /\ 0 < NRows(transformed_df) /\ NRows(transformed_df) < NRows(data_df)
    /\ transformed_df.columns # data_df.columns
    /\ NCols(transformed_df) > NCols(data_df)

====
